---- MODULE Spec2Model ----
(***************************************************************************)
(* syPIV: particle seeding (create_particles.py), advection to the second  *)
(* exposure (compute_locations2 / compute_locations2_serial), camera       *)
(* projection (ccd_projection.py), rendering (intensity.py), the pipeline  *)
(* thread (sypiv_worker.py) and the reader of planar data (dataio.py).     *)
(* Each component has its own specification over the shared variables.     *)
(*                                                                         *)
(* Lengths, positions and diameters are integers of one fixed unit.  A     *)
(* quotient is kept as a reduced fraction, or as inf / nan where IEEE      *)
(* division by zero produces them.  The module-level generator `rng` is a  *)
(* deterministic stream: its state is a position, every draw is a function *)
(* of the position and advances it.                                        *)
(***************************************************************************)
EXTENDS Integers, Sequences, FiniteSets, TLC

VARIABLES
    rng,              \* position of the module-level random stream
    np_build,         \* the numpy build: which of its argument checks raise
    distribution,     \* Particle.distribution
    min_dia, max_dia, mean_dia, std_dia,
    n_concentration,  \* Particle.n_concentration
    particle_field,   \* Particle.particle_field: None or the population
    position, thickness, pulse_time,
    width,            \* LaserSheet.width: None or <<low, high>>
    ia_bounds,        \* CreateParticles.ia_bounds <<x_min, x_max, y_min, y_max>>
    in_plane,         \* CreateParticles.in_plane, a percentage
    particles_in_plane, \* _particles_in_plane of the last compute_locations
    locations,        \* CreateParticles.locations: None or rows <<x, y, z, d>>
    locations2,       \* CreateParticles.locations2
    failed_ids,       \* CreateParticles._failed_ids of the coordinator
    sampler,          \* the flow field sampler: x |-> None or a velocity
    cloud_in,         \* the cloud compute_locations left, as handed to advection
    mode,             \* which advection method is called
    pool,             \* the worker pool of compute_locations2
    d_ccd, d_ia,      \* CCDProjection.d_ccd, d_ia
    projections,      \* CCDProjection.projections: None or rows
    projections2,     \* the attribute sypiv_worker reads for image 2
    last,             \* the method called last
    raised,           \* the exception it left with, or "none"
    num_snapshots,    \* SyPIVWorker.num_snapshots
    cancelled,        \* SyPIVWorker._cancelled
    pc,               \* where run() stands
    stage,            \* the stage of the pair run() is at
    snap_num,         \* the loop variable of run()
    signals,          \* the signals run() has emitted, in order
    cancel_at,        \* None, or the number of signals emitted before cancel()
    cache,            \* Intensity.cache: one row <<dia, xp, z_physical>> per particle
    chunksize,        \* the argument of Intensity.compute
    cpu_count,        \* multiprocessing.cpu_count() of the machine
    method,           \* which of compute, compute_serial, compute_dask is called
    intensity,        \* the local accumulator of the method, one cell per pixel
    self_intensity,   \* Intensity.intensity, the image setup() stored last
    chunk_i, chunk_j, \* the cursors i, j of Intensity.compute
    batches,          \* the batches compute dispatched: size and task batching
    values,           \* Intensity.values: None or the returned field
    folderpath,       \* DataIO.folderpath, a sequence of characters
    file_columns,     \* the number of columns of the files at folderpath
    psize,            \* DataIO.psize
    df,               \* DataIO.df: None or the column names of the dataframe
    gui_grid, gui_flow, \* MainWindow._grid, _flow: loaded or not
    gui_ia_bounds,    \* MainWindow._ia_bounds: None or the region
    gui_worker,       \* MainWindow._worker: None or the worker created last
    gui_snapshots,    \* MainWindow._snapshots: the pair numbers stored
    running,          \* the workers whose thread is running
    started,          \* how many workers on_run_clicked has created
    batch_exit,       \* how main() of batch_sypiv left
    saved             \* the pairs main() of batch_sypiv wrote

particleVars == <<distribution, min_dia, max_dia, mean_dia, std_dia,
                  n_concentration, particle_field>>
laserVars    == <<position, thickness, pulse_time, width>>
seedVars     == <<ia_bounds, in_plane>>
advectVars   == <<locations2, failed_ids, sampler, cloud_in, mode, pool>>
projVars     == <<d_ccd, d_ia, projections, projections2>>
cloudVars    == <<particles_in_plane, locations>>
workerVars   == <<num_snapshots, cancelled, pc, stage, snap_num, signals,
                  cancel_at>>
renderVars   == <<cache, chunksize, cpu_count, method, intensity,
                  self_intensity, chunk_i, chunk_j, batches, values>>
dataVars     == <<folderpath, file_columns, psize, df>>
guiVars      == <<gui_grid, gui_flow, gui_ia_bounds, gui_worker,
                  gui_snapshots, running, started>>
batchVars    == <<batch_exit, saved>>
frontVars    == <<guiVars, batchVars>>
appVars      == <<workerVars, renderVars, dataVars, frontVars>>
libraryVars  == <<rng, np_build, particleVars, laserVars, seedVars, cloudVars,
                  advectVars, projVars>>
vars == <<rng, np_build, particleVars, laserVars, seedVars, cloudVars,
          advectVars, projVars, appVars, last, raised>>

\* An attribute that may be None is a set: empty for None, else {value}.
None == {}
Some(v) == {v}
Val(o) == CHOOSE v \in o : TRUE

(***************************************************************************)
(* Bounds of the model.                                                    *)
(***************************************************************************)
MaxN == 3        \* largest particle count
RngMod == 8      \* number of positions of the random stream
NWorkers == 2    \* pool size n = max(1, cpu_count() - 1)
MaxProj == 2     \* largest cloud handed to the projection
MaxSnaps == 2    \* largest num_snapshots of a run
MaxRender == 3   \* largest particle count handed to a renderer
XRes == 2        \* projection.xres, the pixels of the one sensor row
MaxPath == 4     \* longest folderpath, in characters
MaxCols == 11    \* most columns of a data file
MaxRuns == 3     \* most workers the window creates

Min(a, b) == IF a <= b THEN a ELSE b
Max(a, b) == IF a >= b THEN a ELSE b

(***************************************************************************)
(* The random stream.  Advance(s, k) is the position after k draws.        *)
(***************************************************************************)
Advance(s, k) == (s + k) % RngMod

\* u in [0, 1) as the fraction Raw(s) / RngMod
Raw(s) == s % RngMod

\* rng.uniform(low, high): low + (high - low) * u
Uniform(low, high, s) == low + ((high - low) * Raw(s)) \div RngMod

\* rng.normal(mean, std): mean + std * z, z a standard normal deviate
Normal(mean, std, s) == mean + std * (Raw(s) - RngMod \div 2)

\* k consecutive draws starting at position s
UniformArray(low, high, k, s) ==
    [i \in 1..k |-> Uniform(low, high, Advance(s, i - 1))]

NormalArray(mean, std, k, s) ==
    [i \in 1..k |-> Normal(mean, std, Advance(s, i - 1))]

\* a clip that forgets the upper cutoff
Clip_lower_only(v, lo, hi) == Max(v, lo)

\* np.clip(v, lo, hi) = minimum(maximum(v, lo), hi)
Clip(v, lo, hi) == Min(Max(v, lo), hi)

Swap(f, i, j) == [f EXCEPT ![i] = f[j], ![j] = f[i]]

\* rng.shuffle: Fisher-Yates from the last index down, one draw per index
RECURSIVE ShuffleFrom(_, _, _)
ShuffleFrom(f, i, s) ==
    IF i <= 1 THEN f
    ELSE ShuffleFrom(Swap(f, i, (Raw(s) % i) + 1), i - 1, Advance(s, 1))

Shuffle(f, s) == ShuffleFrom(f, Len(f), s)

ShuffleDraws(n) == IF n <= 1 THEN 0 ELSE n - 1

(***************************************************************************)
(* Particle.compute_distribution                                           *)
(***************************************************************************)
ClippedField(mean, std, lo, hi, n, s) ==
    [i \in 1..n |-> Clip(NormalArray(mean, std, n, s)[i], lo, hi)]

compute_distribution ==
    /\ last' = "compute_distribution"
    /\ raised' = "none"
    /\ IF distribution = "gaussian"
       THEN /\ particle_field' =
                  Some(Shuffle(ClippedField(mean_dia, std_dia, min_dia, max_dia,
                                            n_concentration, rng),
                               Advance(rng, n_concentration)))
            /\ rng' = Advance(rng, n_concentration + ShuffleDraws(n_concentration))
       ELSE \* falls through to the end of the method: nothing is assigned
            UNCHANGED <<particle_field, rng>>
    /\ UNCHANGED <<appVars, np_build, distribution, min_dia, max_dia, mean_dia, std_dia,
                   n_concentration, laserVars, seedVars, cloudVars, advectVars,
                   projVars>>

(***************************************************************************)
(* LaserSheet.compute_bounds                                               *)
(***************************************************************************)
\* thickness / 2 is exact: the thickness is an even number of units
SheetWidth(pos, thick) == <<pos - thick \div 2, pos + thick \div 2>>

compute_bounds ==
    /\ last' = "compute_bounds"
    /\ raised' = "none"
    /\ width' = Some(SheetWidth(position, thickness))
    /\ UNCHANGED <<appVars, rng, np_build, particleVars, position, thickness, pulse_time,
                   seedVars, cloudVars, advectVars, projVars>>

(***************************************************************************)
(* CreateParticles.compute_locations                                       *)
(***************************************************************************)
\* the in-plane count rounded to nearest instead of truncated
ParticlesInPlane_round(f, n) == (f * n + 50) \div 100

\* int(in_plane * n_concentration * 0.01): truncation of a non-negative product
ParticlesInPlane(f, n) == (f * n) \div 100

\* Generator.uniform of a build that validates its arguments rejects
\* high - low < 0; a build that does not samples the reversed interval.
UniformRaises(low, high) == np_build.uniform_checks /\ high < low

\* np.vstack((x, y, z, d)).T : row i is <<x[i], y[i], z[i], d[i]>>
Rows(xs, ys, zs, ds) == [i \in 1..Len(xs) |-> <<xs[i], ys[i], zs[i], ds[i]>>]

\* particle_field[:k] and particle_field[k:] (slices never raise)
SliceTo(f, k) ==
    SubSeq(f, 1, Min(k, Len(f)))
\* the off-plane diameters taken from the start of the population
SliceFrom_start(f, k) == SubSeq(f, 1, Len(f) - Min(k, Len(f)))

SliceFrom(f, k) ==
    SubSeq(f, Min(k, Len(f)) + 1, Len(f))

InPlaneRows(k, s) ==
    Rows(UniformArray(ia_bounds[1], ia_bounds[2], k, s),
         UniformArray(ia_bounds[3], ia_bounds[4], k, Advance(s, k)),
         [i \in 1..k |-> position],
         SliceTo(Val(particle_field), k))

OffPlaneRows(k, m, s) ==
    Rows(UniformArray(ia_bounds[1], ia_bounds[2], m, s),
         UniformArray(ia_bounds[3], ia_bounds[4], m, Advance(s, m)),
         UniformArray(Val(width)[1], Val(width)[2], m, Advance(s, 2 * m)),
         SliceFrom(Val(particle_field), k))

\* The outcome of the method: the exception it leaves with, the value of
\* self.locations and the stream position at that point.
LocationsOutcome ==
    LET k == ParticlesInPlane(in_plane, n_concentration)
        m == n_concentration - k
        s2 == Advance(rng, 2 * k)
        Out(e, l, s) == [err |-> e, locs |-> l, pos |-> s]
    IN  IF UniformRaises(ia_bounds[1], ia_bounds[2])
        THEN Out("ValueError", locations, rng)
        ELSE IF UniformRaises(ia_bounds[3], ia_bounds[4])
        THEN Out("ValueError", locations, Advance(rng, k))
        ELSE IF particle_field = None
        THEN Out("TypeError", locations, s2)
        ELSE IF Len(SliceTo(Val(particle_field), k)) # k
        THEN Out("ValueError", locations, s2)
        ELSE IF width = None
        THEN Out("TypeError", Some(InPlaneRows(k, rng)), Advance(s2, 2 * m))
        ELSE IF UniformRaises(Val(width)[1], Val(width)[2])
        THEN Out("ValueError", Some(InPlaneRows(k, rng)), Advance(s2, 2 * m))
        ELSE IF Len(SliceFrom(Val(particle_field), k)) # m
        THEN Out("ValueError", Some(InPlaneRows(k, rng)), Advance(s2, 3 * m))
        ELSE Out("none", Some(InPlaneRows(k, rng) \o OffPlaneRows(k, m, s2)),
                 Advance(s2, 3 * m))

compute_locations ==
    /\ last' = "compute_locations"
    /\ raised' = LocationsOutcome.err
    /\ particles_in_plane' = ParticlesInPlane(in_plane, n_concentration)
    /\ locations' = LocationsOutcome.locs
    /\ rng' = LocationsOutcome.pos
    /\ UNCHANGED <<appVars, np_build, particleVars, laserVars, seedVars, advectVars,
                   projVars>>

(***************************************************************************)
(* Configurations.                                                         *)
(***************************************************************************)
Builds == [uniform_checks : BOOLEAN, ragged_raises : BOOLEAN]
Kinds == {"gaussian", "uniform"}
Percentages == {0, 50, 90, 100}
Intervals == {<<0, 2>>, <<1, 1>>, <<2, 0>>}
\* the laser sheet of the runs: position and thickness
Sheet == [position |-> 5, thickness |-> 2]

\* the objects as their constructors leave them, apart from the user inputs
\* no Pool exists
NoPool == [state |-> "none"]

NoAdvection ==
    /\ locations2 = <<>>
    /\ failed_ids = <<>>
    /\ sampler = <<>>
    /\ cloud_in = <<>>
    /\ mode = "none"
    /\ pool = NoPool

NoProjection ==
    /\ d_ccd = None
    /\ d_ia = None
    /\ projections = None
    /\ projections2 = None

NoWorker ==
    /\ num_snapshots = 0
    /\ cancelled = FALSE
    /\ pc = "idle"
    /\ stage = 0
    /\ snap_num = 0
    /\ signals = <<>>
    /\ cancel_at = None
NoRender ==
    /\ cache = <<>>
    /\ chunksize = 0
    /\ cpu_count = 0
    /\ method = "none"
    /\ intensity = <<>>
    /\ self_intensity = None
    /\ chunk_i = 0 /\ chunk_j = 0
    /\ batches = <<>>
    /\ values = None
NoData ==
    /\ folderpath = <<>>
    /\ file_columns = 0
    /\ psize = None
    /\ df = None
NoGui ==
    /\ gui_grid = FALSE /\ gui_flow = FALSE
    /\ gui_ia_bounds = None
    /\ gui_worker = None
    /\ gui_snapshots = {}
    /\ running = {}
    /\ started = 0

NoBatch ==
    /\ batch_exit = "none"
    /\ saved = {}

NoFront == NoGui /\ NoBatch
NoApp == NoWorker /\ NoRender /\ NoData /\ NoFront

\* Particle alone: every diameter statistic, no cloud
InitDia ==
    /\ rng \in 0..(RngMod - 1)
    /\ np_build \in {b \in Builds : b.uniform_checks /\ b.ragged_raises}
    /\ distribution \in Kinds
    /\ min_dia \in 1..2
    /\ max_dia \in 1..3
    /\ mean_dia \in {0, 2, 4}
    /\ std_dia \in 0..1
    /\ n_concentration \in 0..MaxN
    /\ particle_field = None
    /\ position = 0 /\ thickness = 0 /\ pulse_time = 0 /\ width = None
    /\ ia_bounds = <<0, 0, 0, 0>> /\ in_plane = 0
    /\ particles_in_plane = 0 /\ locations = None
    /\ NoAdvection /\ NoProjection /\ NoApp
    /\ last = "init" /\ raised = "none"

NextDia == compute_distribution

SpecDia == InitDia /\ [][NextDia]_vars

\* Particle, LaserSheet and CreateParticles: seeding of the first cloud
InitSeed ==
    /\ rng \in 0..(RngMod - 1)
    /\ np_build \in {b \in Builds : b.ragged_raises}
    /\ distribution \in Kinds
    /\ min_dia = 1 /\ max_dia = 3 /\ mean_dia = 2 /\ std_dia = 1
    /\ n_concentration \in 0..MaxN
    /\ particle_field = None
    /\ position = Sheet.position /\ thickness = Sheet.thickness
    /\ pulse_time = 0 /\ width = None
    /\ ia_bounds \in {<<x[1], x[2], y[1], y[2]>> : x \in Intervals, y \in Intervals}
    /\ in_plane \in Percentages
    /\ particles_in_plane = 0 /\ locations = None
    /\ NoAdvection /\ NoProjection /\ NoApp
    /\ last = "init" /\ raised = "none"

NextSeed ==
    \/ compute_distribution
    \/ compute_bounds
    \/ compute_locations

SpecSeed == InitSeed /\ [][NextSeed]_vars

(***************************************************************************)
(* CreateParticles._multi_process                                          *)
(***************************************************************************)
Workers == 1..NWorkers

\* Search, Interpolation and Variables.compute_velocity at a position: a
\* velocity, or None where any of them raises (no cell, interpolation error)
Velocity(x, y, z) == sampler[x]

\* a step that leaves out the pulse time
multi_process_unit(row) ==
    LET v == Velocity(row[1], row[2], row[3])
    IN  IF v = None THEN None
        ELSE Some(<<row[1] + Val(v)[1], row[2] + Val(v)[2],
                    row[3] + Val(v)[3], row[4]>>)

\* The value _multi_process returns for a row: the row moved by one Euler
\* step with its diameter, or None from the bare except
multi_process(row) ==
    LET v == Velocity(row[1], row[2], row[3])
    IN  IF v = None THEN None
        ELSE Some(<<row[1] + pulse_time * Val(v)[1],
                    row[2] + pulse_time * Val(v)[2],
                    row[3] + pulse_time * Val(v)[3],
                    row[4]>>)

\* what the except branch appends to self._failed_ids of the object it runs on
Failed(ids, row, task_id) ==
    IF multi_process(row) = None THEN Append(ids, task_id) ELSE ids

(***************************************************************************)
(* The removal pass: lines 158-161 and 180-183                             *)
(***************************************************************************)
IdSet(ids) == {ids[i] : i \in 1..Len(ids)}

\* a removal that keeps the right rows and returns them last row first
Delete_reversed(arr, ids) ==
    LET kept == {i \in 1..Len(arr) : (i - 1) \notin IdSet(ids)}
        at(r) == CHOOSE j \in kept : Cardinality({x \in kept : x >= j}) = r
    IN  [r \in 1..Cardinality(kept) |-> arr[at(r)]]

RECURSIVE Delete(_, _)
\* np.delete(arr, ids, axis=0): the rows whose 0-based index is not in ids
Delete(arr, ids) ==
    IF arr = <<>> THEN <<>>
    ELSE LET n == Len(arr)
             front == Delete(SubSeq(arr, 1, n - 1), ids)
         IN  IF (n - 1) \in IdSet(ids) THEN front ELSE Append(front, arr[n])

\* np.array(list) of rows and None: a list that mixes both is ragged, which
\* a build that rejects ragged input refuses with ValueError
Ragged(list) ==
    /\ \E i \in 1..Len(list) : list[i] = None
    /\ \E i \in 1..Len(list) : list[i] # None

ArrayRaises(list) == np_build.ragged_raises /\ Ragged(list)

\* the state the pass leaves: self.locations, self.locations2, the exception
RemovalPass(locs, list, ids) ==
    IF ArrayRaises(list)
    THEN [locs |-> Delete(locs, ids), locs2 |-> list, err |-> "ValueError"]
    ELSE [locs |-> Delete(locs, ids), locs2 |-> Delete(list, ids),
          err |-> "none"]

(***************************************************************************)
(* CreateParticles.compute_locations2_serial                               *)
(***************************************************************************)
RECURSIVE SerialFailed(_, _, _)
\* self._failed_ids after the loop over the first n rows
SerialFailed(locs, n, ids) ==
    IF n = 0 THEN ids
    ELSE Failed(SerialFailed(locs, n - 1, ids), locs[n], n - 1)

\* self.locations2 after the loop: one append per row
SerialList(locs, list) == list \o [i \in 1..Len(locs) |-> multi_process(locs[i])]

\* the whole method on an object with these locations, locations2, _failed_ids
SerialRun(locs, list, ids) ==
    RemovalPass(locs, SerialList(locs, list), SerialFailed(locs, Len(locs), ids))

compute_locations2_serial ==
    /\ mode = "serial" /\ last = "init"
    /\ LET locs == Val(locations)
           out == SerialRun(locs, locations2, failed_ids)
       IN  /\ failed_ids' = SerialFailed(locs, Len(locs), failed_ids)
           /\ locations' = Some(out.locs)
           /\ locations2' = out.locs2
           /\ raised' = out.err
    /\ last' = "compute_locations2_serial"
    /\ UNCHANGED <<appVars, rng, np_build, particleVars, laserVars, seedVars,
                   particles_in_plane, sampler, cloud_in, mode, pool, projVars>>

(***************************************************************************)
(* CreateParticles.compute_locations2: Pool(n), starmap, close, join       *)
(***************************************************************************)
\* Pool(n) and the dispatch of starmap: every task carries a pickled copy of
\* self, so each worker process appends to the _failed_ids of its own copy
compute_locations2_start ==
    /\ mode = "pool" /\ last = "init" /\ pool.state = "none"
    /\ pool' = [state |-> "running", results |-> <<>>,
                copies |-> [w \in Workers |-> failed_ids]]
    /\ UNCHANGED <<appVars, rng, np_build, particleVars, laserVars, seedVars, cloudVars,
                   locations2, failed_ids, sampler, cloud_in, mode, projVars,
                   last, raised>>

\* worker w takes the next task of the queue and runs _multi_process on it
pool_task(w) ==
    /\ mode = "pool" /\ pool.state = "running"
    /\ Len(pool.results) < Len(Val(locations))
    /\ LET task_id == Len(pool.results)
           row == Val(locations)[task_id + 1]
       IN  pool' = [pool EXCEPT
                      !.results = Append(@, multi_process(row)),
                      !.copies[w] = Failed(@, row, task_id)]
    /\ UNCHANGED <<appVars, rng, np_build, particleVars, laserVars, seedVars, cloudVars,
                   locations2, failed_ids, sampler, cloud_in, mode, projVars,
                   last, raised>>

\* a coordinator that takes the list before the tasks are done
compute_locations2_join_early ==
    /\ mode = "pool" /\ pool.state = "running"
    /\ locations2' = pool.results
    /\ raised' = "none"
    /\ pool' = [pool EXCEPT !.state = "joined"]
    /\ last' = "compute_locations2"
    /\ UNCHANGED <<appVars, rng, np_build, particleVars, laserVars, seedVars,
                   cloudVars, failed_ids, sampler, cloud_in, mode, projVars>>

\* starmap returns once every task is done; close, join, the removal pass
compute_locations2_join ==
    /\ mode = "pool" /\ pool.state = "running"
    /\ Len(pool.results) = Len(Val(locations))
    /\ LET out == RemovalPass(Val(locations), pool.results, failed_ids)
       IN  /\ locations' = Some(out.locs)
           /\ locations2' = out.locs2
           /\ raised' = out.err
    /\ pool' = [pool EXCEPT !.state = "joined"]
    /\ last' = "compute_locations2"
    /\ UNCHANGED <<appVars, rng, np_build, particleVars, laserVars, seedVars,
                   particles_in_plane, failed_ids, sampler, cloud_in, mode,
                   projVars>>

(***************************************************************************)
(* Advection of a seeded cloud in either mode.                             *)
(***************************************************************************)
Coords == {0, 1}
Diameters == {1, 2}
Velocities == {<<1, 0, 0>>, <<2, 1, 1>>}
Samplers == [Coords -> {None} \cup {Some(v) : v \in Velocities}]

CloudRows == {<<x, 0, Sheet.position, d>> : x \in Coords, d \in Diameters}
Clouds == UNION {[1..n -> CloudRows] : n \in 0..MaxN}

InitAdvect ==
    /\ rng = 0
    /\ np_build \in {b \in Builds : b.uniform_checks}
    /\ distribution = "gaussian"
    /\ min_dia = 1 /\ max_dia = 2 /\ mean_dia = 1 /\ std_dia = 1
    /\ cloud_in \in Clouds
    /\ n_concentration = Len(cloud_in)
    /\ particle_field = Some([i \in 1..Len(cloud_in) |-> cloud_in[i][4]])
    /\ position = Sheet.position /\ thickness = Sheet.thickness /\ pulse_time \in 1..2
    /\ width = Some(SheetWidth(position, thickness))
    /\ ia_bounds = <<0, 2, 0, 0>> /\ in_plane = 50
    /\ particles_in_plane = ParticlesInPlane(in_plane, Len(cloud_in))
    /\ locations = Some(cloud_in)
    /\ locations2 = <<>>
    /\ failed_ids = <<>>
    /\ sampler \in Samplers
    /\ mode \in {"pool", "serial"}
    /\ pool = NoPool
    /\ NoProjection /\ NoApp
    /\ last = "init" /\ raised = "none"

NextAdvect ==
    \/ compute_locations2_serial
    \/ compute_locations2_start
    \/ \E w \in Workers : pool_task(w)
    \/ compute_locations2_join

SpecAdvect == InitAdvect /\ [][NextAdvect]_vars


(***************************************************************************)
(* Floating-point quotients.  A finite value is a reduced fraction with a  *)
(* positive denominator; division by zero gives inf or nan (numpy warns    *)
(* and stores the value, it does not raise).                               *)
(***************************************************************************)
Abs(a) == IF a < 0 THEN -a ELSE a

RECURSIVE Gcd(_, _)
Gcd(a, b) == IF b = 0 THEN a ELSE Gcd(b, a % b)

Fin(a, b) ==
    LET g == Gcd(Abs(a), Abs(b))
        sgn == IF b < 0 THEN -1 ELSE 1
    IN  [kind |-> "fin", num |-> sgn * (a \div g), den |-> sgn * (b \div g)]

Inf(sign) == [kind |-> "inf", num |-> sign, den |-> 0]
NaN == [kind |-> "nan", num |-> 0, den |-> 0]
\* a cell of np.empty: whatever the memory held
Uninit == [kind |-> "uninit", num |-> 0, den |-> 0]

\* a / b in float64 array arithmetic
Quot(a, b) ==
    IF b # 0 THEN Fin(a, b)
    ELSE IF a > 0 THEN Inf(1)
    ELSE IF a < 0 THEN Inf(-1)
    ELSE NaN

(***************************************************************************)
(* CCDProjection                                                           *)
(***************************************************************************)
\* loc[:, c] * self.d_ia / (loc[:, 2] - self.d_ccd) for one row
Pixel(c, z, dia, dccd) == Quot(c * dia, z - dccd)

\* the diameter scaled by the magnification of the row
Forward_scaled(row, dia, dccd) == Quot(row[4] * dia, row[3] - dccd)

\* self.projections[:, 2] = loc[:, 3]
Forward(row, dia, dccd) == Fin(row[4], 1)

ProjectRow(row, dia, dccd) ==
    <<Pixel(row[1], row[3], dia, dccd),
      Pixel(row[2], row[3], dia, dccd),
      Forward(row, dia, dccd)>>

\* __init__: np.empty((particles.locations.shape[0], 3))
CCDProjection_init ==
    /\ projections = None /\ locations # None
    /\ projections' = Some([i \in 1..Len(Val(locations)) |->
                               <<Uninit, Uninit, Uninit>>])
    /\ last' = "CCDProjection"
    /\ raised' = "none"
    /\ UNCHANGED <<appVars, rng, np_build, particleVars, laserVars, seedVars, cloudVars,
                   advectVars, d_ccd, d_ia, projections2>>

\* compute: None for d_ia or d_ccd is a TypeError of the first assignment;
\* an array of another length than the table does not broadcast
CCDProjection_compute ==
    /\ projections # None
    /\ last' = "CCDProjection.compute"
    /\ IF d_ia = None \/ d_ccd = None
       THEN raised' = "TypeError" /\ UNCHANGED projections
       ELSE IF Len(Val(locations)) # Len(Val(projections))
       THEN raised' = "ValueError" /\ UNCHANGED projections
       ELSE /\ raised' = "none"
            /\ projections' =
                 Some([i \in 1..Len(Val(locations)) |->
                         ProjectRow(Val(locations)[i], Val(d_ia), Val(d_ccd))])
    /\ UNCHANGED <<appVars, rng, np_build, particleVars, laserVars, seedVars, cloudVars,
                   advectVars, d_ccd, d_ia, projections2>>

ProjRows == {<<x, 1, z, d>> : x \in 0..2, z \in {Sheet.position, Sheet.position + 1},
                              d \in Diameters}
ProjClouds == UNION {[1..n -> ProjRows] : n \in 0..MaxProj}

\* a flow that has a velocity at every x of ProjRows: the second exposure
\* of the pair is the whole cloud moved by one Euler step
UniformFlow == [x \in 0..2 |-> Some(<<1, 0, 0>>)]

InitProj ==
    /\ rng = 0
    /\ np_build \in {b \in Builds : b.uniform_checks /\ b.ragged_raises}
    /\ distribution = "gaussian"
    /\ min_dia = 1 /\ max_dia = 2 /\ mean_dia = 1 /\ std_dia = 1
    /\ cloud_in \in ProjClouds
    /\ n_concentration = Len(cloud_in)
    /\ particle_field = Some([i \in 1..Len(cloud_in) |-> cloud_in[i][4]])
    /\ position = Sheet.position /\ thickness = Sheet.thickness /\ pulse_time = 1
    /\ width = Some(SheetWidth(position, thickness))
    /\ ia_bounds = <<0, 3, 1, 1>> /\ in_plane = 0
    /\ particles_in_plane = 0
    /\ locations = Some(cloud_in)
    /\ sampler = UniformFlow /\ mode = "serial" /\ pool = NoPool
    /\ failed_ids = <<>>
    /\ locations2 = SerialRun(cloud_in, <<>>, <<>>).locs2
    /\ d_ccd \in {None, Some(Sheet.position), Some(Sheet.position + 3)}
    /\ d_ia \in {None, Some(2), Some(3)}
    /\ projections = None /\ projections2 = None
    /\ NoApp
    /\ last = "init" /\ raised = "none"

NextProj ==
    \/ CCDProjection_init
    \/ CCDProjection_compute

SpecProj == InitProj /\ [][NextProj]_vars


(***************************************************************************)
(* SyPIVWorker.run: the pipeline of one run, pair after pair.  A stage is  *)
(* a call into the library: it returns or it raises.  The signals are the  *)
(* log of what run() emitted; cancel() is called from the GUI thread at    *)
(* any moment of the run.                                                  *)
(***************************************************************************)
Stages == <<"create", "advect", "project", "intensity1", "image1",
            "intensity2", "image2">>

Signal(sig, num, ok) == [sig |-> sig, num |-> num, ok |-> ok]
Progress == Signal("progress", 0, TRUE)

\* the progress messages a stage emits before its work
StageProgress(k) ==
    IF Stages[k] = "create" THEN <<Progress, Progress>>
    ELSE IF Stages[k] \in {"image1", "image2"} THEN <<>>
    ELSE <<Progress>>

\* a handler that stops after error.emit
Except_error_only(log) == Append(log, Signal("error", 0, FALSE))

\* except Exception: error.emit(error_msg); finished.emit(False, error_msg)
Except(log) == log \o <<Signal("error", 0, FALSE), Signal("finished", 0, FALSE)>>

cancel ==
    /\ pc \notin {"idle", "done"}
    /\ cancelled' = TRUE
    /\ cancel_at' = IF cancel_at = None THEN Some(Len(signals)) ELSE cancel_at
    /\ UNCHANGED <<libraryVars, renderVars, dataVars, frontVars, last, raised>>
    /\ UNCHANGED <<num_snapshots, pc, stage, snap_num, signals>>

\* Particle and LaserSheet set up, before the loop
run_setup ==
    /\ pc = "setup"
    /\ \E ok \in BOOLEAN :
          IF ok
          THEN /\ signals' = signals \o <<Progress, Progress>>
               /\ pc' = "loop"
          ELSE /\ signals' = Except(signals \o <<Progress>>)
               /\ pc' = "done"
    /\ UNCHANGED <<libraryVars, renderVars, dataVars, frontVars, last, raised>>
    /\ UNCHANGED <<num_snapshots, cancelled, stage, snap_num, cancel_at>>

\* for snap_num in range(1, self.num_snapshots + 1), and the
\* finished.emit(True, ...) after the loop
run_loop ==
    /\ pc = "loop"
    /\ IF snap_num < num_snapshots
       THEN /\ snap_num' = snap_num + 1
            /\ stage' = 1
            /\ pc' = "check"
            /\ UNCHANGED signals
       ELSE /\ signals' = Append(signals, Signal("finished", 0, TRUE))
            /\ pc' = "done"
            /\ UNCHANGED <<snap_num, stage>>
    /\ UNCHANGED <<libraryVars, renderVars, dataVars, frontVars, last, raised>>
    /\ UNCHANGED <<num_snapshots, cancelled, cancel_at>>

\* a check that emits finished(False, ...) and goes on without the return
run_check_no_return ==
    /\ pc = "check"
    /\ signals' = IF cancelled
                  THEN Append(signals, Signal("finished", 0, FALSE))
                  ELSE signals
    /\ pc' = "stage"
    /\ UNCHANGED <<libraryVars, renderVars, dataVars, frontVars, last, raised>>
    /\ UNCHANGED <<num_snapshots, cancelled, stage, snap_num, cancel_at>>

\* if self._cancelled: finished.emit(False, "Cancelled by user"); return
run_check ==
    /\ pc = "check"
    /\ IF cancelled
       THEN /\ signals' = Append(signals, Signal("finished", 0, FALSE))
            /\ pc' = "done"
       ELSE /\ pc' = "stage"
            /\ UNCHANGED signals
    /\ UNCHANGED <<libraryVars, renderVars, dataVars, frontVars, last, raised>>
    /\ UNCHANGED <<num_snapshots, cancelled, stage, snap_num, cancel_at>>

\* one stage of the pair; the check follows every stage but image2
run_stage ==
    /\ pc = "stage"
    /\ \E ok \in BOOLEAN :
          IF ok
          THEN /\ signals' = signals \o StageProgress(stage)
               /\ IF stage < Len(Stages)
                  THEN stage' = stage + 1 /\ pc' = "check"
                  ELSE pc' = "emit" /\ UNCHANGED stage
          ELSE /\ signals' = Except(signals \o StageProgress(stage))
               /\ pc' = "done"
               /\ UNCHANGED stage
    /\ UNCHANGED <<libraryVars, renderVars, dataVars, frontVars, last, raised>>
    /\ UNCHANGED <<num_snapshots, cancelled, snap_num, cancel_at>>

\* an emit of the image number snap_num * 2 in place of the pair number
run_emit_image_number ==
    /\ pc = "emit"
    /\ signals' = Append(signals,
                         Signal("snapshot_complete", snap_num * 2, TRUE))
    /\ pc' = "loop"
    /\ UNCHANGED <<libraryVars, renderVars, dataVars, frontVars, last, raised>>
    /\ UNCHANGED <<num_snapshots, cancelled, stage, snap_num, cancel_at>>

\* self.snapshot_complete.emit(snap_num, image_gen1, image_gen2)
run_emit ==
    /\ pc = "emit"
    /\ signals' = Append(signals, Signal("snapshot_complete", snap_num, TRUE))
    /\ pc' = "loop"
    /\ UNCHANGED <<libraryVars, renderVars, dataVars, frontVars, last, raised>>
    /\ UNCHANGED <<num_snapshots, cancelled, stage, snap_num, cancel_at>>

NoSeeding ==
    /\ rng = 0
    /\ np_build = [uniform_checks |-> TRUE, ragged_raises |-> TRUE]
    /\ distribution = "gaussian"
    /\ min_dia = 1 /\ max_dia = 2 /\ mean_dia = 1 /\ std_dia = 1
    /\ n_concentration = 0 /\ particle_field = None
    /\ position = 0 /\ thickness = 0 /\ pulse_time = 0 /\ width = None
    /\ ia_bounds = <<0, 0, 0, 0>> /\ in_plane = 0
    /\ particles_in_plane = 0 /\ locations = None

InitWorker ==
    /\ NoSeeding /\ NoAdvection /\ NoProjection /\ NoRender /\ NoData
    /\ NoFront
    /\ num_snapshots \in 0..MaxSnaps
    /\ cancelled = FALSE
    /\ pc = "setup"
    /\ stage = 0
    /\ snap_num = 0
    /\ signals = <<>>
    /\ cancel_at = None
    /\ last = "init" /\ raised = "none"

NextWorker ==
    \/ cancel
    \/ run_setup
    \/ run_loop
    \/ run_check
    \/ run_stage
    \/ run_emit

SpecWorker == InitWorker /\ [][NextWorker]_vars

(***************************************************************************)
(* Seeding: claims C4 - C8                                                 *)
(***************************************************************************)
Seeded == last = "compute_locations" /\ raised = "none"

\* C4: for in-plane percentage f and count N, compute_locations places
\* exactly floor(f/100*N) particles in-plane (k with 100k <= f*N < 100(k+1)),
\* and the z of each of them is the laser sheet position.
C4_InPlaneCount ==
    Seeded =>
        LET locs == Val(locations)
            k == particles_in_plane
        IN  /\ 100 * k <= in_plane * n_concentration
            /\ in_plane * n_concentration < 100 * (k + 1)
            /\ Len(locs) = n_concentration
            /\ \A i \in 1..k : locs[i][3] = position

\* a seeded cloud with in-plane and off-plane particles whose count is the
\* floor of a fraction (50% of 3)
C4_Witness ==
    /\ Seeded
    /\ in_plane = 50 /\ n_concentration = MaxN
    /\ particles_in_plane > 0 /\ particles_in_plane < n_concentration

\* C5: the seeded cloud has N records, in-plane first (rows 1..k at the sheet
\* position, rows k+1..N inside the sheet width), and the diameter of row i
\* is the i-th sample of the diameter population.
C5_InPlaneFirstOrder ==
    Seeded =>
        LET locs == Val(locations)
            k == particles_in_plane
        IN  /\ Len(locs) = n_concentration
            /\ \A i \in 1..Len(locs) : locs[i][4] = Val(particle_field)[i]
            /\ \A i \in 1..Len(locs) :
                  IF i <= k THEN locs[i][3] = position
                  ELSE /\ Val(width)[1] <= locs[i][3]
                       /\ locs[i][3] <= Val(width)[2]

\* a seeded cloud with both kinds of particles and diameters that differ
\* between the two blocks
C5_Witness ==
    /\ Seeded
    /\ particles_in_plane > 0 /\ particles_in_plane < n_concentration
    /\ Val(locations)[1][4] # Val(locations)[n_concentration][4]

\* C8: seeding with malformed interrogation bounds (x_min > x_max or
\* y_min > y_max) fails with an error and produces no particle cloud; stated
\* for a seeder whose population and sheet width are set and N > 0.
MalformedBounds == ia_bounds[1] > ia_bounds[2] \/ ia_bounds[3] > ia_bounds[4]

C8_InvalidBoundsFail ==
    (last = "compute_locations" /\ MalformedBounds /\ n_concentration > 0
       /\ particle_field # None /\ width # None) =>
        (raised # "none" /\ locations = None)

(***************************************************************************)
(* Diameter sampling: claims C6, C7                                        *)
(***************************************************************************)
\* C6: for any mean, std and count the population of compute_distribution
\* has exactly count diameters, each within [min_dia, max_dia] (min <= max).
C6_ClippedPopulation ==
    (last = "compute_distribution" /\ distribution = "gaussian"
       /\ min_dia <= max_dia) =>
        /\ particle_field # None
        /\ Len(Val(particle_field)) = n_concentration
        /\ \A i \in 1..n_concentration :
              /\ min_dia <= Val(particle_field)[i]
              /\ Val(particle_field)[i] <= max_dia

\* a population of MaxN diameters in which both cutoffs were applied
C6_Witness ==
    /\ last = "compute_distribution" /\ distribution = "gaussian"
    /\ min_dia < max_dia /\ std_dia > 0 /\ n_concentration = MaxN
    /\ \E i, j \in 1..n_concentration :
          /\ Val(particle_field)[i] = min_dia
          /\ Val(particle_field)[j] = max_dia
    /\ \E i \in 0..(n_concentration - 1) :
          Normal(mean_dia, std_dia,
                 Advance(rng, RngMod - 2 * n_concentration + 1 + i)) > max_dia

\* C7: a distribution kind other than "gaussian" makes diameter sampling
\* fail with an error.
C7_UnsupportedDistributionFails ==
    (last = "compute_distribution" /\ distribution # "gaussian") =>
        raised # "none"

(***************************************************************************)
(* Advection: claims C1 - C3                                               *)
(***************************************************************************)
Advected == last \in {"compute_locations2", "compute_locations2_serial"}

\* the 0-based indices of the particles of the input cloud whose cell
\* location or velocity interpolation fails
FailedParticles ==
    {i \in 0..(Len(cloud_in) - 1) : multi_process(cloud_in[i + 1]) = None}

\* C1: after advection in either mode, for any cloud and any failures, the
\* two clouds have equal length and row i of locations2 is the particle of
\* row i of locations (the same indices were removed from both).
C1_CloudsRowAligned ==
    Advected =>
        /\ Len(Val(locations)) = Len(locations2)
        /\ \A i \in 1..Len(locations2) :
              locations2[i] = multi_process(Val(locations)[i])

\* C2: in both modes every failing particle is recorded as failed by the
\* coordinator and excluded from both clouds: with N particles of which F
\* fail, both clouds have N - F rows when the method returns, none of a
\* failed particle.
C2_FailedExcluded ==
    (Advected /\ raised = "none") =>
        LET N == Len(cloud_in)
            F == Cardinality(FailedParticles)
        IN  /\ IdSet(failed_ids) = FailedParticles
            /\ Len(Val(locations)) = N - F
            /\ Len(locations2) = N - F
            /\ \A i \in 1..Len(Val(locations)) :
                  multi_process(Val(locations)[i]) # None
            /\ \A i \in 1..Len(locations2) : locations2[i] # None

\* C3: the worker-pool mode leaves the same locations and locations2 as the
\* sequential mode does for the same cloud, pulse time and sampler.
C3_PoolEqualsSerial ==
    (last = "compute_locations2") =>
        LET serial == SerialRun(cloud_in, <<>>, <<>>)
        IN  /\ Val(locations) = serial.locs
            /\ locations2 = serial.locs2

(***************************************************************************)
(* Projection: claims C9, C10                                              *)
(***************************************************************************)
Projected == last = "CCDProjection.compute" /\ raised = "none"

\* C9: compute maps every cloud row (x, y, z, d) with z # d_ccd to the row
\* (x*d_ia/(z - d_ccd), y*d_ia/(z - d_ccd), d) at the same index: the pixel
\* p satisfies p*(z - d_ccd) = c*d_ia, the diameter is copied unmodified,
\* and doubling x at a fixed z doubles pixel_x.
C9_ProjectionRows ==
    Projected =>
        LET locs == Val(locations)
            proj == Val(projections)
            dz(i) == locs[i][3] - Val(d_ccd)
        IN  /\ Len(proj) = Len(locs)
            /\ \A i \in 1..Len(locs) :
                  dz(i) # 0 =>
                     /\ \A c \in 1..2 :
                           /\ proj[i][c].kind = "fin" /\ proj[i][c].den # 0
                           /\ proj[i][c].num * dz(i) =
                                 locs[i][c] * Val(d_ia) * proj[i][c].den
                     /\ proj[i][3] = [kind |-> "fin", num |-> locs[i][4],
                                      den |-> 1]
            /\ \A i, j \in 1..Len(locs) :
                  (dz(i) # 0 /\ locs[i][3] = locs[j][3]
                     /\ locs[j][1] = 2 * locs[i][1]) =>
                     proj[j][1].num * proj[i][1].den =
                        2 * proj[i][1].num * proj[j][1].den

\* a projected cloud with two particles at the same depth off the sensor
\* plane, one at twice the x of the other, with different diameters
C9_Witness ==
    /\ Projected
    /\ Len(Val(locations)) = 2
    /\ Val(locations)[1][3] = Val(locations)[2][3]
    /\ Val(locations)[1][3] # Val(d_ccd)
    /\ Val(locations)[1][1] = 1 /\ Val(locations)[2][1] = 2
    /\ Val(locations)[1][4] # Val(locations)[2][4]
    /\ Val(projections)[1][1].num # 0

\* C10: projecting a particle whose z equals d_ccd fails with an error, and
\* no NaN or Inf pixel coordinate is stored in the projection table.
C10_DegenerateProjectionFails ==
    (last = "CCDProjection.compute" /\ d_ia # None /\ d_ccd # None) =>
        /\ (\E i \in 1..Len(Val(locations)) :
               Val(locations)[i][3] = Val(d_ccd)) => raised # "none"
        /\ \A i \in 1..Len(Val(projections)) : \A c \in 1..2 :
               Val(projections)[i][c].kind \notin {"nan", "inf"}

\* C11: the projection is applied to both clouds of the pair and leaves the
\* tables projections and projections2, each with one row per particle of
\* its cloud at the same index, so that the renderer of image 2 can read
\* projections2.
C11_BothCloudsProjected ==
    Projected =>
        /\ Len(Val(projections)) = Len(Val(locations))
        /\ projections2 # None
        /\ Len(Val(projections2)) = Len(locations2)

(***************************************************************************)
(* Intensity.  The sensor is one row of XRes pixels; a field has one cell  *)
(* per pixel.  The image of a particle is held on an integer scale: the    *)
(* erf difference over the pixel aperture is largest on the pixel of the   *)
(* particle and underflows to 0 away from it, the exp factor of the depth  *)
(* is largest on the sheet plane and underflows to 0 far from it.  Sums of *)
(* images are exact; the average and the rescale are float quotients.      *)
(***************************************************************************)
Pixels == 1..XRes
Zeros == [p \in Pixels |-> 0]

\* erf((x - xp + frx/2)/(sx*sqrt 2)) - erf((x - xp - frx/2)/(sx*sqrt 2))
Spread(dx) == IF dx = 0 THEN 2 ELSE IF Abs(dx) = 1 THEN 1 ELSE 0

\* exp(-1/sqrt(2 pi) * abs(2*(z - ls_position)**2 / ls_thickness**2)**s)
Depth(dz) ==
    IF 2 * Abs(dz) <= thickness THEN 2
    ELSE IF Abs(dz) <= thickness THEN 1
    ELSE 0

\* setup(...): the image of one particle, row = <<dia, xp, z_physical>>
setup(row) ==
    [p \in Pixels |-> Depth(row[3] - position) * row[1] * row[1] *
                      Spread(p - row[2])]

AddImage(a, b) == [p \in Pixels |-> a[p] + b[p]]

\* np.sum(images, axis=0) of the images k.. of a list; 0.0 for an empty list
RECURSIVE SumImages(_, _)
SumImages(images, k) ==
    IF k > Len(images) THEN Zeros
    ELSE AddImage(images[k], SumImages(images, k + 1))

\* a < b of two finite floats
FLess(a, b) == a.num * b.den < b.num * a.den

\* np.max(field): nan as soon as one cell is not a number
FMax(field) ==
    IF \E p \in DOMAIN field : field[p].kind # "fin" THEN NaN
    ELSE field[CHOOSE p \in DOMAIN field :
                  \A q \in DOMAIN field : ~FLess(field[p], field[q])]

\* v / m * 255 without the factor 255
Rescale_unit(v, m) ==
    IF v.kind # "fin" \/ m.kind # "fin" THEN NaN
    ELSE Quot(v.num * m.den, v.den * m.num)

\* v / m * 255
Rescale(v, m) ==
    IF v.kind # "fin" \/ m.kind # "fin" THEN NaN
    ELSE Quot(v.num * m.den * 255, v.den * m.num)

\* intensity = intensity / len(xp), cell by cell
Average(acc, n) == [p \in DOMAIN acc |-> Quot(acc[p], n)]

\* if np.max(intensity) != 0: intensity = intensity / np.max(intensity) * 255
Normalise(field) ==
    LET m == FMax(field)
    IN  IF m = Fin(0, 1) THEN field
        ELSE [p \in DOMAIN field |-> Rescale(field[p], m)]

Finish(acc, n) == Normalise(Average(acc, n))

\* compute_serial: every particle in index order
RECURSIVE SerialAcc(_, _, _)
SerialAcc(rows, k, acc) ==
    IF k > Len(rows) THEN acc
    ELSE SerialAcc(rows, k + 1, AddImage(acc, setup(rows[k])))

compute_serial ==
    /\ method = "compute_serial" /\ last = "init"
    /\ intensity' = SerialAcc(cache, 1, Zeros)
    /\ self_intensity' = IF Len(cache) = 0 THEN None
                         ELSE Some(setup(cache[Len(cache)]))
    /\ values' = Some(Finish(intensity', Len(cache)))
    /\ last' = "compute_serial"
    /\ raised' = "none"
    /\ UNCHANGED <<libraryVars, workerVars, dataVars, frontVars, cache, chunksize,
                   cpu_count, method, chunk_i, chunk_j, batches>>

\* compute_dask: for j in range(0, len(xp), 200), and within the block
\* for i in range(j, j + 200 if j + 200 < len(xp) else len(xp))
DaskBatch == 200

RECURSIVE DaskBlock(_, _, _, _)
DaskBlock(rows, k, stop, da_intensity) ==
    IF k >= stop THEN da_intensity
    ELSE DaskBlock(rows, k + 1, stop, AddImage(da_intensity, setup(rows[k + 1])))

RECURSIVE DaskAcc(_, _, _)
DaskAcc(rows, k, acc) ==
    IF k >= Len(rows) THEN acc
    ELSE LET stop == IF k + DaskBatch < Len(rows) THEN k + DaskBatch
                     ELSE Len(rows)
         IN  DaskAcc(rows, k + DaskBatch,
                     AddImage(acc, DaskBlock(rows, k, stop, Zeros)))

compute_dask ==
    /\ method = "compute_dask" /\ last = "init"
    /\ intensity' = DaskAcc(cache, 0, Zeros)
    /\ values' = Some(Finish(intensity', Len(cache)))
    /\ last' = "compute_dask"
    /\ raised' = "none"
    /\ UNCHANGED <<libraryVars, workerVars, dataVars, frontVars, cache, chunksize,
                   cpu_count, method, self_intensity, chunk_i, chunk_j,
                   batches>>

\* compute: intensity = np.zeros(...); i = 0; j = chunksize
compute_begin ==
    /\ method = "compute" /\ last = "init"
    /\ intensity' = Zeros
    /\ chunk_i' = 0
    /\ chunk_j' = chunksize
    /\ last' = "compute"
    /\ UNCHANGED <<libraryVars, workerVars, dataVars, frontVars, cache, chunksize,
                   cpu_count, method, self_intensity, batches, values, raised>>

Computing == last = "compute" /\ values = None /\ raised = "none"

\* the task batching handed to starmap: n_particles // n for a full chunk,
\* none for the remainder
Batching(full, n_particles) ==
    IF full THEN Some(n_particles \div Max(1, cpu_count - 1)) ELSE None

\* a batch that runs to the end of the arrays whatever j is
BatchStop_all(full) == Len(cache)

\* the end of the slice dispatched: [i:j] for a full chunk, [i:] after it
BatchStop(full) == IF full THEN chunk_j ELSE Len(cache)

\* Pool(n) and pool.starmap(self.setup, ...) of the rows [i:j] while
\* j <= len(xp), of the rows [i:] after the loop.  A batching of 0 makes
\* the map result [None] * n_particles at once, and no task runs.
compute_dispatch ==
    /\ Computing /\ pool.state = "none"
    /\ LET full == chunk_j <= Len(cache)
           stop == BatchStop(full)
           n_particles == stop - chunk_i
           batching == Batching(full, n_particles)
       IN  /\ pool' = [state |-> "running",
                       lo |-> chunk_i,
                       final |-> ~full,
                       runs |-> batching # Some(0),
                       results |-> [t \in 1..n_particles |-> None]]
           /\ batches' = Append(batches, [size |-> n_particles,
                                          batching |-> batching])
    /\ UNCHANGED <<rng, np_build, particleVars, laserVars, seedVars, cloudVars,
                   locations2, failed_ids, sampler, cloud_in, mode, projVars,
                   workerVars, dataVars, frontVars, cache, chunksize, cpu_count, method,
                   intensity, self_intensity, chunk_i, chunk_j, values,
                   last, raised>>

\* a worker process runs self.setup on its copy of the object and returns
\* the image
compute_task(t) ==
    /\ pool.state = "running" /\ method = "compute" /\ pool.runs
    /\ t \in DOMAIN pool.results /\ pool.results[t] = None
    /\ pool' = [pool EXCEPT !.results[t] = Some(setup(cache[pool.lo + t]))]
    /\ UNCHANGED <<rng, np_build, particleVars, laserVars, seedVars, cloudVars,
                   locations2, failed_ids, sampler, cloud_in, mode, projVars,
                   workerVars, dataVars, frontVars, renderVars, last, raised>>

\* pool.close(); pool.join(); intensity += np.sum(itemp, axis=0); then the
\* next chunk, or after the remainder the average and the rescale
compute_join ==
    /\ pool.state = "running" /\ method = "compute"
    /\ pool.runs => \A t \in DOMAIN pool.results : pool.results[t] # None
    /\ pool' = NoPool
    /\ IF \E t \in DOMAIN pool.results : pool.results[t] = None
       THEN /\ raised' = "TypeError"
            /\ UNCHANGED <<intensity, chunk_i, chunk_j, values>>
       ELSE LET itemp == [t \in DOMAIN pool.results |-> Val(pool.results[t])]
                acc == AddImage(intensity, SumImages(itemp, 1))
            IN  /\ intensity' = acc
                /\ raised' = "none"
                /\ IF pool.final
                   THEN /\ values' = Some(Finish(acc, Len(cache)))
                        /\ UNCHANGED <<chunk_i, chunk_j>>
                   ELSE /\ chunk_i' = chunk_j
                        /\ chunk_j' = chunk_j + chunksize
                        /\ UNCHANGED values
    /\ UNCHANGED <<rng, np_build, particleVars, laserVars, seedVars, cloudVars,
                   locations2, failed_ids, sampler, cloud_in, mode, projVars,
                   workerVars, dataVars, frontVars, cache, chunksize, cpu_count, method,
                   self_intensity, batches, last>>

Methods == {"compute", "compute_serial", "compute_dask"}
RenderRows == {<<1, 1, Sheet.position>>, <<2, 2, Sheet.position>>,
               <<1, 4, Sheet.position>>, <<2, 1, Sheet.position + 2>>}
RenderClouds == UNION {[1..n -> RenderRows] : n \in 0..MaxRender}

InitRender ==
    /\ rng = 0
    /\ np_build = [uniform_checks |-> TRUE, ragged_raises |-> TRUE]
    /\ distribution = "gaussian"
    /\ min_dia = 1 /\ max_dia = 2 /\ mean_dia = 1 /\ std_dia = 1
    /\ n_concentration = 0 /\ particle_field = None
    /\ position = Sheet.position /\ thickness = Sheet.thickness
    /\ pulse_time = 0 /\ width = None
    /\ ia_bounds = <<0, 0, 0, 0>> /\ in_plane = 0
    /\ particles_in_plane = 0 /\ locations = None
    /\ NoAdvection /\ NoProjection /\ NoWorker /\ NoData /\ NoFront
    /\ cache \in RenderClouds
    /\ chunksize \in 1..MaxRender
    /\ cpu_count \in 1..(NWorkers + 1)
    /\ method \in Methods
    /\ intensity = <<>>
    /\ self_intensity = None
    /\ chunk_i = 0 /\ chunk_j = 0
    /\ batches = <<>>
    /\ values = None
    /\ last = "init" /\ raised = "none"

NextRender ==
    \/ compute_serial
    \/ compute_dask
    \/ compute_begin
    \/ compute_dispatch
    \/ \E t \in 1..MaxRender : compute_task(t)
    \/ compute_join

SpecRender == InitRender /\ [][NextRender]_vars

(***************************************************************************)
(* SyPIVWorker: claims C15, C16                                            *)
(***************************************************************************)
Finished(ok) == Signal("finished", 0, ok)

\* C15: when cancel() is called at any moment of run(), the run ends with
\* finished(False, ...), never with finished(True, ...), and emits no
\* snapshot_complete after the call.
C15_CancelledRunFails ==
    (pc = "done" /\ cancel_at # None) =>
        /\ signals[Len(signals)] = Finished(FALSE)
        /\ \A i \in 1..Len(signals) :
              /\ signals[i] # Finished(TRUE)
              /\ signals[i].sig = "snapshot_complete" => i <= Val(cancel_at)

\* C16: when a stage raises while pair k is generated, no snapshot_complete
\* is emitted for pair k or a later pair, and the run emits error and then
\* finished(False, ...) as its last two signals.
C16_StageFailureAborts ==
    \A i \in 1..Len(signals) :
        signals[i].sig = "error" =>
            /\ pc = "done"
            /\ i + 1 = Len(signals)
            /\ signals[i + 1] = Finished(FALSE)
            /\ \A j \in 1..Len(signals) :
                  signals[j].sig = "snapshot_complete" =>
                      signals[j].num < snap_num

\* a stage of the second pair raised after the first pair was delivered
C16_Witness ==
    /\ pc = "done"
    /\ snap_num = 2
    /\ Len(signals) >= 3
    /\ signals[Len(signals) - 1].sig = "error"
    /\ \E j \in 1..Len(signals) :
          signals[j] = Signal("snapshot_complete", 1, TRUE)

(***************************************************************************)
(* Intensity: claims C12, C13, C14                                         *)
(***************************************************************************)
\* the method has returned or raised
Rendered == last \in Methods /\ (values # None \/ raised # "none")

\* the sum of the images of all particles at pixel p
RECURSIVE Total(_, _)
Total(k, p) ==
    IF k = 0 THEN 0
    ELSE Total(k - 1, p) +
         Depth(cache[k][3] - position) * cache[k][1] * cache[k][1] *
         Spread(p - cache[k][2])

\* C12: rendering zero particles with compute, compute_serial or
\* compute_dask does not fail, and the returned field is zero at every
\* pixel (the division by the particle count is guarded).
C12_EmptyCloudRendersZeros ==
    (Rendered /\ Len(cache) = 0) =>
        /\ raised = "none"
        /\ values = Some([p \in Pixels |-> Fin(0, 1)])

\* C13: for N >= 1 particles and any chunksize >= 1, compute(chunksize)
\* completes, and its field is the one that compute_serial and
\* compute_dask return for the same particles.
C13_ChunkedEqualsSerial ==
    (Rendered /\ last = "compute" /\ Len(cache) >= 1 /\ chunksize >= 1) =>
        /\ raised = "none"
        /\ values = Some(Finish(SerialAcc(cache, 1, Zeros), Len(cache)))
        /\ values = Some(Finish(DaskAcc(cache, 0, Zeros), Len(cache)))

\* C14: for N >= 1 particles the returned field is the per-pixel sum of the
\* images divided by N and rescaled by the maximum m of that average:
\* when m is zero the field is zero everywhere, otherwise the value at
\* pixel p is 255 * sum(p) / (N * m), every value lies in [0, 255] and the
\* largest is exactly 255.
C14_FieldRescaled ==
    (Rendered /\ raised = "none" /\ Len(cache) >= 1) =>
        LET N == Len(cache)
            field == Val(values)
            top == CHOOSE p \in Pixels : \A q \in Pixels : Total(N, q) <= Total(N, p)
        IN  /\ DOMAIN field = Pixels
            /\ \A p \in Pixels :
                  /\ field[p].kind = "fin" /\ field[p].den > 0
                  /\ 0 <= field[p].num /\ field[p].num <= 255 * field[p].den
            /\ IF Total(N, top) = 0
               THEN \A p \in Pixels : field[p].num = 0
               ELSE /\ \A p \in Pixels :
                          field[p].num * Total(N, top) =
                             255 * Total(N, p) * field[p].den
                    /\ field[top] = Fin(255, 1)

\* three particles with unequal sums over the pixels, rendered in chunks
C14_Witness ==
    /\ Rendered /\ raised = "none" /\ last = "compute"
    /\ Len(cache) = 3 /\ Len(batches) >= 2
    /\ Total(3, 1) > 0 /\ Total(3, 2) > Total(3, 1)
    /\ Val(values)[2] = Fin(255, 1)
    /\ Val(values)[1] # Fin(255, 1) /\ Val(values)[1] # Fin(0, 1)

(***************************************************************************)
(* DataIO.read_data.  The path is a sequence of characters; the files it   *)
(* names have file_columns whitespace separated columns, which read_csv    *)
(* names after the first row.                                              *)
(***************************************************************************)
columns == <<"x0", "x1", "x2", "v0", "v1", "v2", "u0", "u1", "u2">>

Digits == {"0", "1", "2", "3", "4", "5", "6", "7", "8", "9"}

\* int() of one decimal digit
Digit(c) ==
    CASE c = "0" -> 0 [] c = "1" -> 1 [] c = "2" -> 2 [] c = "3" -> 3
      [] c = "4" -> 4 [] c = "5" -> 5 [] c = "6" -> 6 [] c = "7" -> 7
      [] c = "8" -> 8 [] c = "9" -> 9

\* int(run) of a run of decimal digits
RECURSIVE int(_)
int(run) ==
    IF run = <<>> THEN 0
    ELSE 10 * int(SubSeq(run, 1, Len(run) - 1)) + Digit(run[Len(run)])

\* re.findall(r'\d+', path): the maximal runs of digits, left to right;
\* cur is the run being read, acc the runs closed so far
RECURSIVE Findall(_, _, _, _)
Findall(path, k, cur, acc) ==
    IF k > Len(path)
    THEN IF cur = <<>> THEN acc ELSE Append(acc, cur)
    ELSE IF path[k] \in Digits
    THEN Findall(path, k + 1, Append(cur, path[k]), acc)
    ELSE Findall(path, k + 1, <<>>,
                 IF cur = <<>> THEN acc ELSE Append(acc, cur))

\* [0] of the list
Pick_first(list) == list[1]

\* [-1] of the list
Pick(list) == list[Len(list)]

\* the names read_csv gives the columns of the file
Header(n) == [k \in 1..n |-> "row0"]

read_data ==
    /\ last = "init"
    /\ last' = "read_data"
    /\ LET runs == Findall(folderpath, 1, <<>>, <<>>)
       IN  IF runs = <<>>
           THEN raised' = "IndexError" /\ UNCHANGED <<psize, df>>
           ELSE /\ psize' = Some(int(Pick(runs)))
                /\ IF file_columns <= Len(columns)
                   THEN /\ df' = Some(Header(file_columns))
                        /\ raised' = IF file_columns = Len(columns)
                                     THEN "IndexError" ELSE "TypeError"
                   ELSE /\ df' = Some(columns)
                        /\ raised' = "none"
    /\ UNCHANGED <<libraryVars, workerVars, renderVars, frontVars, folderpath,
                   file_columns>>

Alphabet == {"0", "2", "8", "Z", "/"}
Paths == UNION {[1..n -> Alphabet] : n \in 0..MaxPath}

InitData ==
    /\ NoSeeding /\ NoAdvection /\ NoProjection /\ NoWorker /\ NoRender
    /\ NoFront
    /\ folderpath \in Paths
    /\ file_columns \in 1..MaxCols
    /\ psize = None
    /\ df = None
    /\ last = "init" /\ raised = "none"

NextData == read_data

SpecData == InitData /\ [][NextData]_vars

(***************************************************************************)
(* DataIO: claims C18, C19                                                 *)
(***************************************************************************)
\* C18: after read_data on files with nine columns or more, the dataframe
\* has exactly the nine columns x0 x1 x2 v0 v1 v2 u0 u1 u2, in that order.
C18_NineNamedColumns ==
    (last = "read_data" /\ psize # None /\ file_columns >= 9) =>
        /\ raised = "none"
        /\ df = Some(<<"x0", "x1", "x2", "v0", "v1", "v2", "u0", "u1", "u2">>)

IsDigit(k) == folderpath[k] \in Digits

\* the decimal value of the characters a..b of the path
RECURSIVE Decimal(_, _)
Decimal(a, b) ==
    IF a > b THEN 0 ELSE 10 * Decimal(a, b - 1) + Digit(folderpath[b])

\* C19: read_data sets psize to the integer value of the last run of
\* decimal digits of the path: the digits a..b with no digit next to them
\* on the left and no digit anywhere after them.
C19_PsizeLastDigitRun ==
    (last = "read_data" /\ \E k \in 1..Len(folderpath) : IsDigit(k)) =>
        \E a \in 1..Len(folderpath) : \E b \in a..Len(folderpath) :
            /\ \A k \in a..b : IsDigit(k)
            /\ a > 1 => ~IsDigit(a - 1)
            /\ \A k \in (b + 1)..Len(folderpath) : ~IsDigit(k)
            /\ psize = Some(Decimal(a, b))

\* a path with a digit in an earlier component and the run 28 last
C19_Witness ==
    /\ last = "read_data"
    /\ folderpath = <<"0", "/", "2", "8">>
    /\ psize = Some(28)

(***************************************************************************)
(* Advection: claim C20                                                    *)
(***************************************************************************)
\* C20: when advection has returned, every row i of locations2 that holds a
\* particle is row i of locations moved by pulse_time times the velocity
\* sampled at it, with the diameter of that row, and the rows of locations
\* are rows of the seeded cloud, unmodified and in their order.
C20_EulerStepKeepsDiameter ==
    (Advected /\ raised = "none") =>
        LET locs == Val(locations)
        IN  /\ \A i \in 1..Len(locations2) :
                  locations2[i] # None =>
                      /\ i <= Len(locs)
                      /\ sampler[locs[i][1]] # None
                      /\ \A c \in 1..3 :
                            Val(locations2[i])[c] =
                               locs[i][c] +
                               pulse_time * Val(sampler[locs[i][1]])[c]
                      /\ Val(locations2[i])[4] = locs[i][4]
            /\ \E f \in [1..Len(locs) -> 1..Len(cloud_in)] :
                  /\ \A i \in 1..Len(locs) : locs[i] = cloud_in[f[i]]
                  /\ \A i, k \in 1..Len(locs) : i < k => f[i] < f[k]

\* a serial run at pulse time 2 that removed a failed particle and kept a
\* moving one
C20_Witness ==
    /\ last = "compute_locations2_serial" /\ raised = "none"
    /\ pulse_time = 2
    /\ Len(Val(locations)) < Len(cloud_in)
    /\ \E i \in 1..Len(locations2) :
          /\ locations2[i] # None
          /\ Val(locations2[i])[1] = Val(locations)[i][1] + 4

(***************************************************************************)
(* Seeding: claim C21                                                      *)
(***************************************************************************)
\* C21: every seeded particle, in-plane or off-plane, has x within
\* [x_min, x_max] and y within [y_min, y_max], and every off-plane particle
\* has z within [position - thickness/2, position + thickness/2].
C21_SeededWithinBounds ==
    Seeded =>
        LET locs == Val(locations)
        IN  /\ \A i \in 1..Len(locs) :
                  /\ ia_bounds[1] <= locs[i][1] /\ locs[i][1] <= ia_bounds[2]
                  /\ ia_bounds[3] <= locs[i][2] /\ locs[i][2] <= ia_bounds[4]
            /\ \A i \in (particles_in_plane + 1)..Len(locs) :
                  /\ 2 * position - thickness <= 2 * locs[i][3]
                  /\ 2 * locs[i][3] <= 2 * position + thickness

\* the same for well-formed bounds
C21_WellFormedWithinBounds == ~MalformedBounds => C21_SeededWithinBounds

(***************************************************************************)
(* Intensity.compute: claims C22, C28, C30                                 *)
(***************************************************************************)
\* the number of particles in the batches before batch k
RECURSIVE Before(_)
Before(k) == IF k <= 1 THEN 0 ELSE Before(k - 1) + batches[k - 1].size

\* C22: every batch compute dispatches, the remainder included, holds at
\* most chunksize particles, and while a batch is with the pool the
\* accumulator already holds the images of all particles of the batches
\* before it.
C22_BoundedBatches ==
    /\ \A k \in 1..Len(batches) : batches[k].size <= chunksize
    /\ (last = "compute" /\ pool.state = "running") =>
          /\ pool.lo = Before(Len(batches))
          /\ \A p \in Pixels : intensity[p] = Total(pool.lo, p)

\* the remainder batch of three particles in chunks of two is with the
\* pool, the first chunk is in the accumulator
C22_Witness ==
    /\ last = "compute" /\ pool.state = "running"
    /\ Len(cache) = 3 /\ chunksize = 2
    /\ Len(batches) = 2 /\ batches[1].size = 2 /\ batches[2].size = 1
    /\ \E p \in Pixels : intensity[p] > 0

(***************************************************************************)
(* The two pool stages together: claim C23                                 *)
(***************************************************************************)
InitPools == InitAdvect \/ InitRender

NextPools == NextAdvect \/ NextRender

SpecPools == InitPools /\ [][NextPools]_vars

\* every task of the advection pool has returned
AdvectTasksDone ==
    /\ pool.state = "running"
    /\ Len(pool.results) = Len(Val(locations))

\* every task of the render batch has returned
BatchTasksDone ==
    /\ pool.state = "running"
    /\ \A t \in DOMAIN pool.results : pool.results[t] # None

\* C23: in compute_locations2 the clouds and the coordinator's _failed_ids
\* change, and in compute the accumulator changes, only in the step that
\* joins the pool after every task of the stage or batch has returned; no
\* step of a worker changes them.
C23_ReduceAfterJoin ==
    [][/\ (mode = "pool" /\ last = "init" /\
             <<locations, locations2, failed_ids>>' #
                <<locations, locations2, failed_ids>>)
             => (AdvectTasksDone /\ pool'.state = "joined")
       /\ (last = "compute" /\ intensity' # intensity)
             => (BatchTasksDone /\ pool'.state = "none")]_vars

\* the pool is joined, two workers recorded a failure each on their own
\* copy, and the coordinator's list is empty
C23_Witness ==
    /\ last = "compute_locations2" /\ pool.state = "joined"
    /\ Len(locations2) = 3
    /\ failed_ids = <<>>
    /\ \A w \in Workers : pool.copies[w] # <<>>

(***************************************************************************)
(* batch_sypiv.main: the worker is built and run() is called in the        *)
(* thread of main; only snapshot_complete is connected, and its slot       *)
(* stores the pair under its number.                                       *)
(***************************************************************************)
\* the dict snapshots after run(): one entry per snapshot_complete emitted
Snapshots ==
    {signals[i].num : i \in {k \in 1..Len(signals) :
                                signals[k].sig = "snapshot_complete"}}

\* worker.run() has returned: np.save of every stored pair, then return
main_save ==
    /\ batch_exit = "running" /\ pc = "done"
    /\ saved' = Snapshots
    /\ batch_exit' = "returned"
    /\ UNCHANGED <<libraryVars, workerVars, renderVars, dataVars, guiVars,
                   last, raised>>

InitBatch ==
    /\ NoSeeding /\ NoAdvection /\ NoProjection /\ NoRender /\ NoData /\ NoGui
    /\ num_snapshots \in 0..MaxSnaps
    /\ cancelled = FALSE
    /\ pc = "setup"
    /\ stage = 0
    /\ snap_num = 0
    /\ signals = <<>>
    /\ cancel_at = None
    /\ batch_exit = "running"
    /\ saved = {}
    /\ last = "init" /\ raised = "none"

NextBatch ==
    \/ run_setup
    \/ run_loop
    \/ run_check
    \/ run_stage
    \/ run_emit
    \/ main_save

SpecBatch == InitBatch /\ [][NextBatch]_vars

(***************************************************************************)
(* batch_sypiv: claim C24                                                  *)
(***************************************************************************)
\* C24: when the run of the batch driver ends with finished(False, ...)
\* after an exception, main does not return normally: it leaves with an
\* error.
C24_BatchFailureSurfaced ==
    (batch_exit # "running" /\ \E i \in 1..Len(signals) : signals[i].sig = "error")
        => batch_exit # "returned"

(***************************************************************************)
(* SyPIVWorker: claims C25, C26                                            *)
(***************************************************************************)
IsFinished(i) == signals[i].sig = "finished"

\* the thread of run() keeps executing: a stage returns or raises
RunStep == run_setup \/ run_loop \/ run_check \/ run_stage \/ run_emit

LiveWorker == SpecWorker /\ WF_vars(RunStep)

\* finished is the last signal of a run that has ended and is emitted once,
\* a run that has not ended has not emitted it, and an error signal is
\* directly followed by finished(False, ...)
FinishedOnceAndLast ==
    /\ pc \in {"setup", "loop", "check", "stage", "emit"} =>
          \A i \in 1..Len(signals) : ~IsFinished(i)
    /\ pc = "done" =>
          /\ Len(signals) >= 1
          /\ \A i \in 1..Len(signals) : IsFinished(i) <=> i = Len(signals)
    /\ \A i \in 1..Len(signals) :
          signals[i].sig = "error" =>
             /\ i < Len(signals)
             /\ signals[i + 1] = Finished(FALSE)

\* C25: every execution of run() ends, and emits finished exactly once, as
\* its last signal, whether it succeeds, is cancelled at a check point or
\* raises in a stage; an error signal is always followed by
\* finished(False, ...).
C25_FinishedOnceAndLast == []FinishedOnceAndLast /\ <>(pc = "done")

\* a run cancelled at a check point after its first pair was delivered
C25_Witness ==
    /\ pc = "done" /\ cancelled
    /\ signals[Len(signals)] = Finished(FALSE)
    /\ \E i \in 1..Len(signals) : signals[i].sig = "snapshot_complete"
    /\ \A i \in 1..Len(signals) : signals[i].sig # "error"

\* the positions of the log that hold a snapshot_complete
Completes == {i \in 1..Len(signals) : signals[i].sig = "snapshot_complete"}

\* C26: within a run the k-th snapshot_complete carries the number k, so
\* the numbers are 1, 2, 3, ... in increasing order, each at most once and
\* none above num_snapshots, and finished(True, ...) is emitted only when
\* all num_snapshots pairs have been emitted (none when num_snapshots = 0).
C26_SnapshotsInOrder ==
    /\ \A i \in Completes :
          /\ signals[i].num = Cardinality({k \in Completes : k <= i})
          /\ signals[i].num <= num_snapshots
    /\ (\E i \in 1..Len(signals) : signals[i] = Finished(TRUE)) =>
          /\ Cardinality(Completes) = num_snapshots
          /\ \A i \in Completes : i < Len(signals)

\* a run of two pairs that succeeded
C26_Witness ==
    /\ pc = "done" /\ num_snapshots = 2
    /\ signals[Len(signals)] = Finished(TRUE)
    /\ Cardinality(Completes) = 2

(***************************************************************************)
(* MainWindow: the slots of the GUI thread and the threads of the workers  *)
(* it started.  A worker is known by the order of its creation; its run    *)
(* is seen from the window as snapshot_complete signals and the end of the *)
(* thread.                                                                 *)
(***************************************************************************)
\* num_snapshots=3 of the worker on_run_clicked creates
GuiSnapshots == 3

Region == <<0, 2, 0, 2>>

guiFrame == <<libraryVars, workerVars, renderVars, dataVars, batchVars,
              raised>>

on_files_loaded ==
    /\ gui_grid' = TRUE
    /\ gui_flow' = TRUE
    /\ last' = "on_files_loaded"
    /\ UNCHANGED <<guiFrame, gui_ia_bounds, gui_worker, gui_snapshots,
                   running, started>>

on_region_selected ==
    /\ gui_ia_bounds' = Some(Region)
    /\ last' = "on_region_selected"
    /\ UNCHANGED <<guiFrame, gui_grid, gui_flow, gui_worker, gui_snapshots,
                   running, started>>

\* self._worker.isRunning()
IsRunning(w) == w \in running

\* a click that starts a worker without asking isRunning()
on_run_clicked_unchecked ==
    /\ last' = "on_run_clicked"
    /\ IF ~gui_grid \/ ~gui_flow \/ gui_ia_bounds = None
       THEN UNCHANGED <<gui_worker, gui_snapshots, running, started>>
       ELSE /\ started < MaxRuns
            /\ gui_snapshots' = {}
            /\ started' = started + 1
            /\ gui_worker' = Some(started + 1)
            /\ running' = running \cup {started + 1}
    /\ UNCHANGED <<guiFrame, gui_grid, gui_flow, gui_ia_bounds>>

\* the three early returns, then _snapshots.clear(), SyPIVWorker(...),
\* the connects and start()
on_run_clicked ==
    /\ last' = "on_run_clicked"
    /\ IF ~gui_grid \/ ~gui_flow
       THEN UNCHANGED <<gui_worker, gui_snapshots, running, started>>
       ELSE IF gui_ia_bounds = None
       THEN UNCHANGED <<gui_worker, gui_snapshots, running, started>>
       ELSE IF gui_worker # None /\ IsRunning(Val(gui_worker))
       THEN UNCHANGED <<gui_worker, gui_snapshots, running, started>>
       ELSE /\ started < MaxRuns
            /\ gui_snapshots' = {}
            /\ started' = started + 1
            /\ gui_worker' = Some(started + 1)
            /\ running' = running \cup {started + 1}
    /\ UNCHANGED <<guiFrame, gui_grid, gui_flow, gui_ia_bounds>>

\* a running worker emits snapshot_complete(k, ...): the slot stores pair k
on_snapshot_complete(w, k) ==
    /\ IsRunning(w)
    /\ gui_snapshots' = gui_snapshots \cup {k}
    /\ last' = "on_snapshot_complete"
    /\ UNCHANGED <<guiFrame, gui_grid, gui_flow, gui_ia_bounds, gui_worker,
                   running, started>>

\* run() of worker w returns and its thread ends
thread_ends(w) ==
    /\ IsRunning(w)
    /\ running' = running \ {w}
    /\ last' = "thread_ends"
    /\ UNCHANGED <<guiFrame, gui_grid, gui_flow, gui_ia_bounds, gui_worker,
                   gui_snapshots, started>>

InitGui ==
    /\ NoSeeding /\ NoAdvection /\ NoProjection /\ NoWorker /\ NoRender
    /\ NoData /\ NoBatch
    /\ gui_grid = FALSE /\ gui_flow = FALSE
    /\ gui_ia_bounds = None
    /\ gui_worker = None
    /\ gui_snapshots = {}
    /\ running = {}
    /\ started = 0
    /\ last = "init" /\ raised = "none"

NextGui ==
    \/ on_files_loaded
    \/ on_region_selected
    \/ on_run_clicked
    \/ \E w \in 1..MaxRuns : \E k \in 1..GuiSnapshots : on_snapshot_complete(w, k)
    \/ \E w \in 1..MaxRuns : thread_ends(w)

SpecGui == InitGui /\ [][NextGui]_vars

(***************************************************************************)
(* MainWindow: claim C27                                                   *)
(***************************************************************************)
\* C27: at most one worker is running at any time, and a step of
\* on_run_clicked creates and starts a worker exactly when grid and flow
\* are loaded, a region is selected and no worker started before is still
\* running; otherwise it leaves the worker, the set of running workers and
\* the stored snapshots unchanged.
C27_AtMostOneWorker ==
    /\ [](Cardinality(running) <= 1)
    /\ [][last' = "on_run_clicked" =>
            IF gui_grid /\ gui_flow /\ gui_ia_bounds # None /\ running = {}
            THEN /\ started' = started + 1
                 /\ gui_worker' = Some(started')
                 /\ running' = {started'}
            ELSE UNCHANGED <<gui_worker, gui_snapshots, running, started>>]_vars

\* the second worker was started after the first had ended
C27_Witness ==
    /\ last = "on_run_clicked"
    /\ started = 2 /\ running = {2} /\ gui_worker = Some(2)


(***************************************************************************)
(* The removal pass of the advection: claim C29                            *)
(***************************************************************************)
\* the first particles_in_plane records of the seeded cloud are the
\* in-plane ones
InPlaneRecord(j) == j <= particles_in_plane

\* f takes the rows of a cloud to records of the seeded cloud in their
\* order, so that no off-plane record comes before an in-plane one
KeepsOrder(f, n) ==
    /\ \A i, k \in 1..n : i < k => f[i] < f[k]
    /\ \A i, k \in 1..n : (i < k /\ InPlaneRecord(f[k])) => InPlaneRecord(f[i])

\* C29: after an advection, with whatever particles failed, the rows of
\* locations and the rows of locations2 are records of the seeded cloud
\* (moved, for locations2) in the order they were seeded in, so that every
\* surviving in-plane record precedes every surviving off-plane record in both.
C29_RemovalKeepsOrder ==
    Advected =>
        LET locs == Val(locations)
            n    == Len(cloud_in)
        IN  /\ \E f \in [1..Len(locs) -> 1..n] :
                  /\ KeepsOrder(f, Len(locs))
                  /\ \A i \in 1..Len(locs) : locs[i] = cloud_in[f[i]]
            /\ \E g \in [1..Len(locations2) -> 1..n] :
                  /\ KeepsOrder(g, Len(locations2))
                  /\ \A i \in 1..Len(locations2) :
                        locations2[i] = multi_process(cloud_in[g[i]])

\* a serial run over three distinct records, one in-plane and two off-plane,
\* that removed the failed middle one and kept the other two
C29_Witness ==
    /\ last = "compute_locations2_serial" /\ raised = "none"
    /\ Len(cloud_in) = 3 /\ particles_in_plane = 1
    /\ FailedParticles = {1}
    /\ cloud_in[1] # cloud_in[3]
    /\ Val(locations) = <<cloud_in[1], cloud_in[3]>>
    /\ Len(locations2) = 2


(***************************************************************************)
(* Intensity.compute, the batches it dispatches: claims C28, C30           *)
(***************************************************************************)
\* C28: compute over N >= 0 particles with chunksize >= 1 ends by returning,
\* after dispatching exactly N div chunksize full batches of chunksize
\* particles each and then one remainder batch of N mod chunksize particles.
C28_FullBatchesThenRemainder ==
    (Rendered /\ last = "compute" /\ chunksize >= 1) =>
        LET N == Len(cache)
            q == N \div chunksize
        IN  /\ raised = "none"
            /\ Len(batches) = q + 1
            /\ \A k \in 1..q :
                  /\ batches[k].size = chunksize
                  /\ batches[k].batching # None
            /\ batches[q + 1].size = N % chunksize
            /\ batches[q + 1].batching = None

\* C30: every full chunk is handed to the pool with a task batching
\* n_particles // n of at least 1, so that the pool returns one image for
\* each of its particles.
C30_FullChunkBatchingPositive ==
    /\ \A k \in 1..Len(batches) :
          batches[k].batching # None => Val(batches[k].batching) >= 1
    /\ (last = "compute" /\ pool.state = "none" /\ Len(batches) > 0) =>
          raised = "none"

====
